---- MODULE Spec2Model ----
(***************************************************************************)
(* Model of two operators of alumina_ops: the complex multiply/divide      *)
(* activation (math/muldiv.rs) and the elementwise minimum                 *)
(* (elementwise/min.rs), with their backward operators.                    *)
(*                                                                         *)
(* f32 scalars are modelled as exact rationals <<n, d>> (d > 0, lowest     *)
(* terms): the arithmetic is the real arithmetic the code's expressions    *)
(* denote, without rounding, NaN or infinities.                            *)
(***************************************************************************)
EXTENDS Integers, Sequences, FiniteSets, TLC

VARIABLES
    inst,      \* the operator instance handed to execute (MulDivInstance / MulDivBackInstance)
    store,     \* ExecutionContext storage: node id -> [shape, data], data flat in standard layout
    store0,    \* the storage as it was when execute was entered
    pc,        \* per lane task of par_for_each: number of loop iterations completed
    writes,    \* per flat position of the written buffer: number of `+=` applied in this execute
    status,    \* "idle" | "running" | "Ok" | "panic"
    ops,       \* Graph: the operator instances registered by build(), in construction order
    nodes,     \* Graph: the node ids that exist
    call,      \* the last API call made on the graph
    result,    \* what that call returned ("panic": it did not return)
    val,       \* node id -> lane of values (storage of the sequential graph execution)
    executed,  \* indices (into ops) of the instances executed in this pass
    ishape,    \* ShapePropContext: shape of the instance's input
    gshape,    \* ShapePropContext: shape of output_grad
    oshape,    \* ShapePropContext: shape constraint carried by the instance's output
    sresult    \* what propagate_shapes returned

vars == <<inst, store, store0, pc, writes, status, ops, nodes, call, result, val,
          executed, ishape, gshape, oshape, sresult>>

execVars  == <<inst, store, store0, pc, writes, status>>
graphVars == <<ops, nodes, call, result, val, executed>>
shapeVars == <<ishape, gshape, oshape, sresult>>

----------------------------------------------------------------------------
(* Bounds of the model *)

MaxLen  == 5   \* longest innermost axis (one group of 4 and one leftover)
GraphLen == 5  \* length of the tensors of the graph executions
MaxFwd  == 2   \* forward operators built in one graph
MaxDim  == 2   \* largest axis size in shape propagation
NumRows == 2   \* number of lanes of the executed tensors

----------------------------------------------------------------------------
(* Rational arithmetic standing for f32 arithmetic *)

Abs(n) == IF n < 0 THEN -n ELSE n

RECURSIVE GCD(_, _)
GCD(m, n) == IF n = 0 THEN m ELSE GCD(n, m % n)

Rat(n, d) ==
    LET s == IF d < 0 THEN -1 ELSE 1
        g == GCD(Abs(n), Abs(d))
    IN  <<(s * n) \div g, (s * d) \div g>>

Int2R(n)   == <<n, 1>>
Zero       == <<0, 1>>
RAdd(x, y) ==
    LET g == GCD(x[2], y[2])
    IN  Rat(x[1] * (y[2] \div g) + y[1] * (x[2] \div g), (x[2] \div g) * y[2])
RNeg(x)    == <<-x[1], x[2]>>
RSub(x, y) == RAdd(x, RNeg(y))
RMul(x, y) ==
    LET g1 == GCD(Abs(x[1]), y[2])
        g2 == GCD(Abs(y[1]), x[2])
    IN  Rat((x[1] \div g1) * (y[1] \div g2), (x[2] \div g2) * (y[2] \div g1))
RDiv(x, y) == RMul(x, Rat(y[2], y[1]))
RLt(x, y)  == x[1] * y[2] < y[1] * x[2]
RLe(x, y)  == x[1] * y[2] <= y[1] * x[2]
Two        == <<2, 1>>

----------------------------------------------------------------------------
(* Nodes and operator specifications / instances (muldiv.rs) *)

Node(k)     == <<"node", k>>
grad_of(n)  == <<"grad", n[2]>>          \* GradientContext::grad_of: the accumulator of node n
IsGrad(n)   == n[1] = "grad"

DefaultEpsilon == Rat(1, 10)             \* `epsilon: 0.1` set by MulDiv::new and MulDivBack::new

MulDiv_new(input, output) ==
    [input |-> input, output |-> output, epsilon |-> DefaultEpsilon]

MulDiv_epsilon(self, epsilon) == [self EXCEPT !.epsilon = epsilon]

MulDiv_build_instance(self) ==
    [type |-> "MulDiv", input |-> self.input, output |-> self.output,
     epsilon |-> self.epsilon]

MulDivBack_new(input, input_grad, output_grad) ==
    [input |-> input, input_grad |-> input_grad, output_grad |-> output_grad,
     epsilon |-> DefaultEpsilon]

MulDivBack_epsilon(self, epsilon) == [self EXCEPT !.epsilon = epsilon]

MulDivBack_build_instance(self) ==
    [type |-> "MulDivBack", input |-> self.input, input_grad |-> self.input_grad,
     output_grad |-> self.output_grad, epsilon |-> self.epsilon]

(* MulDivInstance::gradient: what it returns and the instances it builds, in order *)
MulDivInstance_gradient(self) ==
    [result |-> "Ok",
     built  |-> << MulDivBack_build_instance(
                     MulDivBack_epsilon(
                       MulDivBack_new(self.input, grad_of(self.input), grad_of(self.output)),
                       self.epsilon)) >>]

(* variant: the backward instance reports success and builds nothing *)
MulDivBackInstance_gradientSilent(self) ==
    [result |-> "Ok", built |-> <<>>]

(* MulDivBackInstance::gradient *)
MulDivBackInstance_gradient(self) ==
    [result |-> "Err(Unimplemented)", built |-> <<>>]

----------------------------------------------------------------------------
(* elementwise/min.rs *)

(* Min = BinaryElementwise<MinFunc>, MinBack = TernaryElementwise<MinBackFunc> *)
Min_new_default(input1, input2, output) ==
    [type |-> "Min", input1 |-> input1, input2 |-> input2, output |-> output]

MinBack_new_default(input1, input2, input3, output) ==
    [type |-> "MinBack", input1 |-> input1, input2 |-> input2, input3 |-> input3,
     output |-> output]

(* variant: the comparison the wrong way round *)
MinFunc_calcMax(input1, input2) == IF RLt(input1, input2) THEN input2 ELSE input1

(* f32::min of two numbers *)
MinFunc_calc(input1, input2) == IF RLt(input2, input1) THEN input2 ELSE input1

(* variant: a tie passes the gradient on *)
MinBackFunc_calcLe(input1, input2, input3) ==
    IF RLe(input1, input2) THEN input3 ELSE Zero

MinBackFunc_calc(input1, input2, input3) ==
    IF RLt(input1, input2) THEN input3 ELSE Zero

MinFunc_grad(input1, input2, output) ==
    [result |-> "Ok",
     built  |-> << MinBack_new_default(input1, input2, grad_of(output), grad_of(input1)),
                   MinBack_new_default(input2, input1, grad_of(output), grad_of(input2)) >>]

MinBackFunc_grad(input1, input2, input3, output) ==
    [result |-> "Err(Unimplemented)", built |-> <<>>]

----------------------------------------------------------------------------
(* Lanes of a tensor in standard layout: shape <<rows, len>>, data flat *)

Rows(t)  == t.shape[1]
LaneLen(t) == t.shape[2]

(* variant: every task is handed the first lane *)
LaneBaseShared(r, len) == 0

LaneBase(r, len) == (r - 1) * len

Lane(t, r) ==
    [j \in 1..LaneLen(t) |-> t.data[LaneBase(r, LaneLen(t)) + j]]

SetLane(t, r, lane) ==
    [t EXCEPT !.data =
        [k \in 1..Len(t.data) |->
            IF /\ k > LaneBase(r, LaneLen(t))
               /\ k <= LaneBase(r, LaneLen(t)) + Len(lane)
            THEN lane[k - LaneBase(r, LaneLen(t))]
            ELSE t.data[k]]]

Groups(len)    == len \div 4
Remainder(len) == len - Groups(len) * 4
Steps(len)     == Groups(len) + Remainder(len)   \* iterations of the two loops of one lane

----------------------------------------------------------------------------
(* MulDivInstance::execute, the body of the per-lane closure *)

(* variant: the real part of the product with the sign of its second term flipped *)
MulDivGroupSignSlip(input, output, i, epsilon) ==
    LET a == input[i * 4 + 1]
        b == input[i * 4 + 2]
        c == input[i * 4 + 3]
        d == input[i * 4 + 4]
        denom == RAdd(RAdd(RMul(epsilon, epsilon), RMul(c, c)), RMul(d, d))
    IN  [output EXCEPT
            ![i * 4 + 1] = RAdd(@, RAdd(RMul(a, c), RMul(b, d))),
            ![i * 4 + 2] = RAdd(@, RAdd(RMul(a, d), RMul(b, c))),
            ![i * 4 + 3] = RAdd(@, RDiv(RAdd(RMul(a, c), RMul(b, d)), denom)),
            ![i * 4 + 4] = RAdd(@, RDiv(RSub(RMul(b, c), RMul(a, d)), denom))]

(* iteration i of `for i in 0..groups`; the slices are 0-based in the source *)
MulDivGroup(input, output, i, epsilon) ==
    LET a == input[i * 4 + 1]
        b == input[i * 4 + 2]
        c == input[i * 4 + 3]
        d == input[i * 4 + 4]
        denom == RAdd(RAdd(RMul(epsilon, epsilon), RMul(c, c)), RMul(d, d))
    IN  [output EXCEPT
            ![i * 4 + 1] = RAdd(@, RSub(RMul(a, c), RMul(b, d))),
            ![i * 4 + 2] = RAdd(@, RAdd(RMul(a, d), RMul(b, c))),
            ![i * 4 + 3] = RAdd(@, RDiv(RAdd(RMul(a, c), RMul(b, d)), denom)),
            ![i * 4 + 4] = RAdd(@, RDiv(RSub(RMul(b, c), RMul(a, d)), denom))]

(* iteration i of `for i in 0..remainder` *)
MulDivRemainder(input, output, i) ==
    LET groups == Groups(Len(input))
    IN  [output EXCEPT ![groups * 4 + i + 1] = RAdd(@, input[groups * 4 + i + 1])]

(* iteration number s (0-based, group iterations first) of the closure *)
MulDivLaneStep(input, output, s, epsilon) ==
    IF s < Groups(Len(input))
    THEN MulDivGroup(input, output, s, epsilon)
    ELSE MulDivRemainder(input, output, s - Groups(Len(input)))

----------------------------------------------------------------------------
(* MulDivBackInstance::execute, the body of the per-lane closure *)

MulDivBackGroup(input, input_grad, output_grad, i, epsilon) ==
    LET a  == input[i * 4 + 1]
        b  == input[i * 4 + 2]
        c  == input[i * 4 + 3]
        d  == input[i * 4 + 4]
        \* the source reads the upstream gradient from input_grad
        wg == input_grad[i * 4 + 1]
        xg == input_grad[i * 4 + 2]
        yg == input_grad[i * 4 + 3]
        zg == input_grad[i * 4 + 4]
        c2d2e   == RAdd(RAdd(RMul(c, c), RMul(d, d)), RMul(epsilon, epsilon))
        c2d2e_2 == RMul(c2d2e, c2d2e)
        acbd == RAdd(RMul(a, c), RMul(b, d))
        bcad == RSub(RMul(b, c), RMul(a, d))
        c2 == RDiv(RMul(c, Two), c2d2e_2)
        d2 == RDiv(RMul(d, Two), c2d2e_2)
        ag == RAdd(RAdd(RAdd(RMul(wg, c), RMul(xg, d)),
                        RMul(yg, RDiv(c, c2d2e))),
                   RMul(zg, RNeg(RDiv(d, c2d2e))))
        bg == RAdd(RAdd(RAdd(RMul(wg, RNeg(d)), RMul(xg, c)),
                        RMul(yg, RDiv(d, c2d2e))),
                   RMul(zg, RDiv(c, c2d2e)))
        cg == RAdd(RAdd(RAdd(RMul(wg, a), RMul(xg, b)),
                        RMul(yg, RSub(RDiv(a, c2d2e), RMul(acbd, c2)))),
                   RMul(zg, RSub(RDiv(b, c2d2e), RMul(bcad, c2))))
        dg == RAdd(RAdd(RAdd(RMul(wg, RNeg(b)), RMul(xg, a)),
                        RMul(yg, RSub(RDiv(b, c2d2e), RMul(acbd, d2)))),
                   RMul(zg, RSub(RDiv(RNeg(a), c2d2e), RMul(bcad, d2))))
    IN  [input_grad EXCEPT
            ![i * 4 + 1] = RAdd(@, ag),
            ![i * 4 + 2] = RAdd(@, bg),
            ![i * 4 + 3] = RAdd(@, cg),
            ![i * 4 + 4] = RAdd(@, dg)]

MulDivBackRemainder(input, input_grad, output_grad, i) ==
    LET groups == Groups(Len(input))
    IN  [input_grad EXCEPT
            ![groups * 4 + i + 1] = RAdd(@, output_grad[groups * 4 + i + 1])]

MulDivBackLaneStep(input, input_grad, output_grad, s, epsilon) ==
    IF s < Groups(Len(input))
    THEN MulDivBackGroup(input, input_grad, output_grad, s, epsilon)
    ELSE MulDivBackRemainder(input, input_grad, output_grad, s - Groups(Len(input)))

(* lane-local positions (1-based) that iteration s applies `+=` to *)
StepIndices(len, s) ==
    IF s < Groups(len)
    THEN {s * 4 + 1, s * 4 + 2, s * 4 + 3, s * 4 + 4}
    ELSE {Groups(len) * 4 + (s - Groups(len)) + 1}

----------------------------------------------------------------------------
(* Parallel execution of one instance: Zip::from(lanes)...par_for_each *)

IsBack(i)      == i.type = "MulDivBack"
Written(i)     == IF IsBack(i) THEN i.input_grad ELSE i.output   \* get_output_standard
ZeroData(n)    == [k \in 1..n |-> Zero]
ZeroCount(n)   == [k \in 1..n |-> 0]
Numel(shape)   == shape[1] * shape[2]
ZeroTensor(shape) == [shape |-> shape, data |-> ZeroData(Numel(shape))]

(* the assert_eq! on the shapes at the head of execute *)
ShapesAgree(i, st) ==
    IF IsBack(i)
    THEN /\ st[i.input].shape = st[i.output_grad].shape
         /\ st[i.input].shape = st[i.input_grad].shape
    ELSE st[i.input].shape = st[i.output].shape

(* the written lane of task r after its iteration s *)
LaneAfterStep(i, st, r, s) ==
    IF IsBack(i)
    THEN MulDivBackLaneStep(Lane(st[i.input], r), Lane(st[i.input_grad], r),
                            Lane(st[i.output_grad], r), s, i.epsilon)
    ELSE MulDivLaneStep(Lane(st[i.input], r), Lane(st[i.output], r), s, i.epsilon)

StoreAfterStep(i, st, r, s) ==
    [st EXCEPT ![Written(i)] = SetLane(@, r, LaneAfterStep(i, st, r, s))]

ExecuteStart ==
    /\ status = "idle"
    /\ store0' = store
    /\ writes' = ZeroCount(Len(store[Written(inst)].data))
    /\ IF ShapesAgree(inst, store)
       THEN /\ status' = "running"
            /\ pc' = [r \in 1..Rows(store[inst.input]) |-> 0]
       ELSE /\ status' = "panic"
            /\ pc' = pc
    /\ UNCHANGED <<inst, store>>

LaneTask(r) ==
    /\ status = "running"
    /\ pc[r] < Steps(LaneLen(store[inst.input]))
    /\ store' = StoreAfterStep(inst, store, r, pc[r])
    /\ writes' = [k \in 1..Len(writes) |->
                    IF \E j \in StepIndices(LaneLen(store[inst.input]), pc[r]) :
                           k = LaneBase(r, LaneLen(store[inst.input])) + j
                    THEN writes[k] + 1 ELSE writes[k]]
    /\ pc' = [pc EXCEPT ![r] = @ + 1]
    /\ UNCHANGED <<inst, store0, status>>

(* par_for_each returns once every lane is done, then execute returns Ok(()) *)
Join ==
    /\ status = "running"
    /\ \A r \in DOMAIN pc : pc[r] = Steps(LaneLen(store[inst.input]))
    /\ status' = "Ok"
    /\ UNCHANGED <<inst, store, store0, pc, writes>>

(* the next pass of the engine: the written storage is allocated zeroed again *)
Rerun ==
    /\ status = "Ok"
    /\ status' = "idle"
    /\ store' = [store EXCEPT ![Written(inst)] = ZeroTensor(@.shape)]
    /\ store0' = store'
    /\ pc' = <<>>
    /\ writes' = <<>>
    /\ UNCHANGED inst

(* the storage after all lane tasks ran one after the other, lane 1 first *)
RECURSIVE RunLane(_, _, _, _)
RunLane(i, st, r, s) ==
    IF s >= Steps(LaneLen(st[i.input])) THEN st
    ELSE CHOOSE res \in {RunLane(i, next, r, s + 1) :
                            next \in {StoreAfterStep(i, st, r, s)}} : TRUE

RECURSIVE RunLanes(_, _, _)
RunLanes(i, st, r) ==
    IF r > Rows(st[i.input]) THEN st
    ELSE CHOOSE res \in {RunLanes(i, next, r + 1) : next \in {RunLane(i, st, r, 0)}} : TRUE

----------------------------------------------------------------------------
(* Inputs of the executions *)

Vals == {Int2R(-1), Zero, Int2R(2)}
EpsilonChoices == {DefaultEpsilon, Rat(1, 1)}   \* the default, and epsilon(1.0) of the tests

(* lane r is the group grp repeated along the lane, rotated by r - 1 places *)
InputTensor(shape, grp) ==
    [shape |-> shape,
     data  |-> [k \in 1..Numel(shape) |->
                  grp[((((k - 1) % shape[2]) + ((k - 1) \div shape[2])) % 4) + 1]]]

(* content of the written buffer before the execution: zeroed, or 1, 2, 3, ... *)
PriorTensor(shape, prior) ==
    [shape |-> shape, data |-> [k \in 1..Numel(shape) |-> Int2R(prior * k)]]

(* upstream gradient: -1, 0, 1, 2, ... *)
UpstreamTensor(shape) ==
    [shape |-> shape, data |-> [k \in 1..Numel(shape) |-> Int2R(k - 2)]]

Forward(eps) ==
    MulDiv_build_instance(MulDiv_epsilon(MulDiv_new(Node(1), Node(2)), eps))

Storage(i, ishp, wshp, gshp, grp, prior) ==
    IF IsBack(i)
    THEN (i.input :> InputTensor(ishp, grp)) @@ (i.input_grad :> PriorTensor(wshp, prior))
         @@ (i.output_grad :> UpstreamTensor(gshp))
    ELSE (i.input :> InputTensor(ishp, grp)) @@ (i.output :> PriorTensor(wshp, prior))

GraphIdle ==
    /\ ops = <<>>
    /\ nodes = {}
    /\ call = <<"none">>
    /\ result = "none"
    /\ val = <<>>
    /\ executed = {}

ShapeIdle ==
    /\ ishape = <<>>
    /\ gshape = <<>>
    /\ oshape = <<>>
    /\ sresult = "none"

ExecIdle ==
    /\ inst = [type |-> "none"]
    /\ store = <<>>
    /\ store0 = <<>>
    /\ pc = <<>>
    /\ writes = <<>>
    /\ status = "none"

Init ==
    /\ GraphIdle
    /\ ShapeIdle
    /\ \E eps \in EpsilonChoices, back \in BOOLEAN, len \in 1..MaxLen, prior \in {0, 1} :
         LET fwd == Forward(eps)
             i   == IF back THEN MulDivInstance_gradient(fwd).built[1] ELSE fwd
             shp == <<NumRows, len>>
         IN  /\ inst = i
             /\ \/ \E grp \in [1..4 -> Vals] :
                      store = Storage(i, shp, shp, shp, grp, prior)
                \* storage whose shapes disagree
                \/ \E wshp \in {shp, <<NumRows, len + 1>>},
                      gshp \in {shp, <<NumRows + 1, len>>} :
                      /\ wshp # shp \/ (back /\ gshp # shp)
                      /\ store = Storage(i, shp, wshp, gshp, [j \in 1..4 |-> Int2R(1)], prior)
             /\ store0 = store
             /\ pc = <<>>
             /\ writes = <<>>
             /\ status = "idle"

Next ==
    \/ (ExecuteStart /\ UNCHANGED <<graphVars, shapeVars>>)
    \/ (\E r \in DOMAIN pc : LaneTask(r) /\ UNCHANGED <<graphVars, shapeVars>>)
    \/ (Join /\ UNCHANGED <<graphVars, shapeVars>>)
    \/ (Rerun /\ UNCHANGED <<graphVars, shapeVars>>)

Spec == Init /\ [][Next]_vars

----------------------------------------------------------------------------
(* Quantities the claims speak of *)

Finished == status = "Ok"
InT      == store0[inst.input]
OutT     == store[Written(inst)]
Out0T    == store0[Written(inst)]
LaneOf(k, len) == ((k - 1) \div len) + 1      \* the lane holding flat position k

(* regularised denominator D = c*c + d*d + eps*eps *)
Denom(c, d, eps) == RAdd(RAdd(RMul(c, c), RMul(d, d)), RMul(eps, eps))

(* amount the forward operator is to add at lane position j (1-based) *)
FwdAmount(x, eps, j) ==
    IF j > 4 * (Len(x) \div 4) THEN x[j]
    ELSE LET i == (j - 1) \div 4
             a == x[4 * i + 1]
             b == x[4 * i + 2]
             c == x[4 * i + 3]
             d == x[4 * i + 4]
             D == Denom(c, d, eps)
         IN  CASE (j - 1) % 4 = 0 -> RSub(RMul(a, c), RMul(b, d))
               [] (j - 1) % 4 = 1 -> RAdd(RMul(a, d), RMul(b, c))
               [] (j - 1) % 4 = 2 -> RDiv(RAdd(RMul(a, c), RMul(b, d)), D)
               [] OTHER           -> RDiv(RSub(RMul(b, c), RMul(a, d)), D)

(* amount the backward operator is to add at lane position j: the combined
   adjoint of the upstream gradient g (output_grad) at input x *)
BackAmount(x, g, eps, j) ==
    IF j > 4 * (Len(x) \div 4) THEN g[j]
    ELSE LET i  == (j - 1) \div 4
             a  == x[4 * i + 1]
             b  == x[4 * i + 2]
             c  == x[4 * i + 3]
             d  == x[4 * i + 4]
             wg == g[4 * i + 1]
             xg == g[4 * i + 2]
             yg == g[4 * i + 3]
             zg == g[4 * i + 4]
             D  == Denom(c, d, eps)
             D2 == RMul(D, D)
             acbd == RAdd(RMul(a, c), RMul(b, d))
             bcad == RSub(RMul(b, c), RMul(a, d))
             S(p, q, t, u) == RAdd(RAdd(p, q), RAdd(t, u))
         IN  CASE (j - 1) % 4 = 0 ->
                    S(RMul(wg, c), RMul(xg, d),
                      RDiv(RMul(yg, c), D), RNeg(RDiv(RMul(zg, d), D)))
               [] (j - 1) % 4 = 1 ->
                    S(RNeg(RMul(wg, d)), RMul(xg, c),
                      RDiv(RMul(yg, d), D), RDiv(RMul(zg, c), D))
               [] (j - 1) % 4 = 2 ->
                    S(RMul(wg, a), RMul(xg, b),
                      RMul(yg, RSub(RDiv(a, D), RDiv(RMul(RMul(Two, c), acbd), D2))),
                      RMul(zg, RSub(RDiv(b, D), RDiv(RMul(RMul(Two, c), bcad), D2))))
               [] OTHER ->
                    S(RNeg(RMul(wg, b)), RMul(xg, a),
                      RMul(yg, RSub(RDiv(b, D), RDiv(RMul(RMul(Two, d), acbd), D2))),
                      RMul(zg, RSub(RDiv(RNeg(a), D), RDiv(RMul(RMul(Two, d), bcad), D2))))

----------------------------------------------------------------------------
(* C2: when MulDivInstance::execute has returned, every position j of every
   lane holds its prior content plus the forward amount (groups of 4: a*c-b*d,
   a*d+b*c, (a*c+b*d)/D, (b*c-a*d)/D; leftover positions: the input itself),
   each position received exactly one `+=`, and the input is unchanged. *)
C2_ForwardAccumulates ==
    (Finished /\ inst.type = "MulDiv") =>
        /\ store[inst.input] = store0[inst.input]
        /\ OutT.shape = Out0T.shape
        /\ \A r \in 1..Rows(InT) : \A j \in 1..LaneLen(InT) :
              /\ Lane(OutT, r)[j] =
                    RAdd(Lane(Out0T, r)[j], FwdAmount(Lane(InT, r), inst.epsilon, j))
              /\ writes[(r - 1) * LaneLen(InT) + j] = 1

(* a finished forward execution over a lane with a full group and a leftover,
   into a non-zero buffer, with a non-zero division result *)
C2_Witness ==
    /\ Finished
    /\ inst.type = "MulDiv"
    /\ LaneLen(InT) = 5
    /\ Out0T.data[3] # Zero
    /\ FwdAmount(Lane(InT, 1), inst.epsilon, 3) # Zero
    /\ FwdAmount(Lane(InT, 2), inst.epsilon, 5) # Zero

(* C1: when the MulDivBack built by MulDivInstance::gradient has executed,
   every position of input_grad holds its prior content plus the combined
   adjoint of the upstream gradient taken from output_grad (leftover
   positions: output_grad itself). *)
C1_BackwardAdjoint ==
    (Finished /\ IsBack(inst)) =>
        /\ inst = MulDivBack_build_instance(
                     [input |-> Node(1), input_grad |-> grad_of(Node(1)),
                      output_grad |-> grad_of(Node(2)), epsilon |-> inst.epsilon])
        /\ \A r \in 1..Rows(InT) : \A j \in 1..LaneLen(InT) :
              Lane(OutT, r)[j] =
                 RAdd(Lane(Out0T, r)[j],
                      BackAmount(Lane(InT, r), Lane(store0[inst.output_grad], r),
                                 inst.epsilon, j))

(* C6: an execute entered with storage of disagreeing shapes ends by
   returning Err(ExecutionError), having written nothing. *)
C6_MismatchIsError ==
    (status \in {"Ok", "Err", "panic"} /\ ~ShapesAgree(inst, store0)) =>
        /\ status = "Err"
        /\ store = store0

(* C10: execution is deterministic and lane-isolated: a finished execute
   left the storage the lanes run one after the other would leave, it
   finishes only when every lane task has; a step of one lane task changes
   no position of another lane and no other tensor; the instance itself
   never changes. *)
C10_State ==
    Finished =>
        /\ store = RunLanes(inst, store0, 1)
        /\ \A r \in DOMAIN pc : pc[r] = Steps(LaneLen(InT))

C10_Step ==
    (status = "running" /\ status' = "running") =>
        /\ \A n \in DOMAIN store : n # Written(inst) => store'[n] = store[n]
        /\ \A k \in 1..Len(OutT.data) :
              pc'[LaneOf(k, LaneLen(InT))] = pc[LaneOf(k, LaneLen(InT))]
                 => OutT'.data[k] = OutT.data[k]

C10_LaneIsolation ==
    /\ []C10_State
    /\ [][C10_Step]_vars
    /\ [][status # "none" => inst' = inst]_vars

(* a backward execution into a non-zero buffer in which the second lane's task
   has finished, and changed its lane, while the first lane's is part-way *)
C10_Witness ==
    /\ status = "running"
    /\ IsBack(inst)
    /\ LaneLen(InT) = 5
    /\ pc[1] = 1
    /\ pc[2] = Steps(LaneLen(InT))
    /\ Out0T.data[1] # Zero
    /\ Lane(OutT, 2) # Lane(Out0T, 2)
    /\ Lane(OutT, 1) # Lane(Out0T, 1)

----------------------------------------------------------------------------
(* Graph construction: the constructors and the gradient pass *)

IsBackType(i) == i.type \in {"MulDivBack", "MinBack"}

(* OpInstance::outputs: the one node the instance writes *)
OutputOf(i) == IF i.type = "MulDivBack" THEN i.input_grad ELSE i.output

(* the upstream gradient a backward instance reads *)
UpstreamOf(i) == IF i.type = "MulDivBack" THEN i.output_grad ELSE i.input3

(* OpInstance::gradient of each instance type *)
Gradient(i) ==
    CASE i.type = "MulDiv"     -> MulDivInstance_gradient(i)
      [] i.type = "MulDivBack" -> MulDivBackInstance_gradient(i)
      [] i.type = "Min"        -> MinFunc_grad(i.input1, i.input2, i.output)
      [] OTHER                 -> MinBackFunc_grad(i.input1, i.input2, i.input3, i.output)

(* accumulator nodes requested through ctx.grad_of while building `built` *)
GradNodes(built) ==
    {OutputOf(built[b]) : b \in DOMAIN built} \cup {UpstreamOf(built[b]) : b \in DOMAIN built}

(* Graph::new_node *)
NewNode(ns) == Node(Cardinality({n \in ns : ~IsGrad(n)}) + 1)

(* OpSpecification::build: registers the instance, or fails and registers nothing *)
Build(g_ops, instance, ok) == IF ok THEN Append(g_ops, instance) ELSE g_ops

(* pub fn muldiv: `build()?` hands a build error back to the caller *)
muldiv(g_ops, g_nodes, input, ok) ==
    LET output == NewNode(g_nodes)
    IN  [ops    |-> Build(g_ops, MulDiv_build_instance(MulDiv_new(input, output)), ok),
         nodes  |-> g_nodes \cup {output},
         result |-> IF ok THEN "Ok" ELSE "Err(OpBuildError)"]

(* pub fn min: `build().expect(..)` panics on a build error *)
min(g_ops, g_nodes, input1, input2, ok) ==
    LET output == NewNode(g_nodes)
    IN  [ops    |-> Build(g_ops, Min_new_default(input1, input2, output), ok),
         nodes  |-> g_nodes \cup {output},
         result |-> IF ok THEN "Ok" ELSE "panic"]

UserNodes    == {Node(1), Node(2)}
MulDivInputs == {Node(1)}
MinInputs    == {<<Node(1), Node(2)>>, <<Node(2), Node(1)>>, <<Node(1), Node(1)>>}

Building ==
    /\ result # "panic"
    /\ val = <<>>

CanConstruct ==
    /\ Building
    /\ Cardinality(nodes \ UserNodes) < MaxFwd
    /\ \A k \in DOMAIN ops : ~IsBackType(ops[k])

Differentiated(k) ==
    \E b \in DOMAIN ops :
        /\ IsBackType(ops[b])
        /\ UpstreamOf(ops[b]) = grad_of(OutputOf(ops[k]))

CallMulDiv ==
    /\ CanConstruct
    /\ \E input \in MulDivInputs, ok \in BOOLEAN :
         LET r == muldiv(ops, nodes, input, ok)
         IN  /\ ops' = r.ops
             /\ nodes' = r.nodes
             /\ result' = r.result
             /\ call' = <<"muldiv", ok>>
    /\ UNCHANGED <<val, executed>>

CallMin ==
    /\ CanConstruct
    /\ \E in \in MinInputs, ok \in BOOLEAN :
         LET r == min(ops, nodes, in[1], in[2], ok)
         IN  /\ ops' = r.ops
             /\ nodes' = r.nodes
             /\ result' = r.result
             /\ call' = <<"min", ok>>
    /\ UNCHANGED <<val, executed>>

CallGradient(k) ==
    /\ Building
    /\ IsBackType(ops[k]) \/ ~Differentiated(k)
    /\ LET r == Gradient(ops[k])
       IN  /\ ops' = ops \o r.built
           /\ nodes' = nodes \cup GradNodes(r.built)
           /\ result' = r.result
           /\ call' = <<"gradient", k>>
    /\ UNCHANGED <<val, executed>>

----------------------------------------------------------------------------
(* Sequential execution of the graph's instances on one-lane tensors *)

RECURSIVE MulDivLaneRun(_, _, _, _)
MulDivLaneRun(input, output, s, epsilon) ==
    IF s >= Steps(Len(input)) THEN output
    ELSE CHOOSE res \in {MulDivLaneRun(input, next, s + 1, epsilon) :
                            next \in {MulDivLaneStep(input, output, s, epsilon)}} : TRUE

RECURSIVE MulDivBackLaneRun(_, _, _, _, _)
MulDivBackLaneRun(input, input_grad, output_grad, s, epsilon) ==
    IF s >= Steps(Len(input)) THEN input_grad
    ELSE CHOOSE res \in {MulDivBackLaneRun(input, next, output_grad, s + 1, epsilon) :
                            next \in {MulDivBackLaneStep(input, input_grad, output_grad,
                                                         s, epsilon)}} : TRUE

(* the elementwise template: output[j] += calc(inputs[j]) *)
BinaryElementwise_execute(i, v) ==
    [j \in DOMAIN v[i.output] |->
        RAdd(v[i.output][j], MinFunc_calc(v[i.input1][j], v[i.input2][j]))]

TernaryElementwise_execute(i, v) ==
    [j \in DOMAIN v[i.output] |->
        RAdd(v[i.output][j],
             MinBackFunc_calc(v[i.input1][j], v[i.input2][j], v[i.input3][j]))]

(* the content of the instance's output after OpInstance::execute *)
ExecuteInstance(i, v) ==
    CASE i.type = "MulDiv" ->
            MulDivLaneRun(v[i.input], v[i.output], 0, i.epsilon)
      [] i.type = "MulDivBack" ->
            MulDivBackLaneRun(v[i.input], v[i.input_grad], v[i.output_grad], 0, i.epsilon)
      [] i.type = "Min" -> BinaryElementwise_execute(i, v)
      [] OTHER          -> TernaryElementwise_execute(i, v)

Seeds == {0, 1}

(* storage at the start of a pass: values of the user's nodes, the upstream
   gradient of every operator output, everything else zeroed *)
InitialValue(n, vn, vm) ==
    [j \in 1..GraphLen |->
        CASE n = Node(1)              -> Int2R(vn + j)
          [] n = Node(2)              -> Int2R(vm + 3 - j)
          [] IsGrad(n) /\ n[2] > 2    -> Int2R(j * (n[2] - 1))
          [] OTHER                    -> Zero]

Run ==
    /\ Building
    /\ ops # <<>>
    /\ \E vn \in Seeds, vm \in Seeds :
          val' = [n \in nodes |-> InitialValue(n, vn, vm)]
    /\ call' = <<"run">>
    /\ result' = "Ok"
    /\ UNCHANGED <<ops, nodes, executed>>

(* forward instances run in construction order, then the backward ones in any order *)
Ready(k) ==
    IF IsBackType(ops[k])
    THEN \A f \in DOMAIN ops : ~IsBackType(ops[f]) => f \in executed
    ELSE \A f \in 1..(k - 1) : ~IsBackType(ops[f]) => f \in executed

Execute(k) ==
    /\ val # <<>>
    /\ k \notin executed
    /\ Ready(k)
    /\ val' = [val EXCEPT ![OutputOf(ops[k])] = ExecuteInstance(ops[k], val)]
    /\ executed' = executed \cup {k}
    /\ UNCHANGED <<ops, nodes, call, result>>

InitGraph ==
    /\ ExecIdle
    /\ ShapeIdle
    /\ ops = <<>>
    /\ nodes = UserNodes
    /\ call = <<"none">>
    /\ result = "none"
    /\ val = <<>>
    /\ executed = {}

NextGraph ==
    \/ (CallMulDiv /\ UNCHANGED <<execVars, shapeVars>>)
    \/ (CallMin /\ UNCHANGED <<execVars, shapeVars>>)
    \/ (\E k \in DOMAIN ops : CallGradient(k) /\ UNCHANGED <<execVars, shapeVars>>)
    \/ (Run /\ UNCHANGED <<execVars, shapeVars>>)
    \/ (\E k \in DOMAIN ops : Execute(k) /\ UNCHANGED <<execVars, shapeVars>>)

SpecGraph == InitGraph /\ [][NextGraph]_vars

----------------------------------------------------------------------------
(* Quantities the graph claims speak of *)

MinOps == {k \in DOMAIN ops : ops[k].type = "Min"}

(* the backward instances that read the gradient of operator k's output *)
BackOf(k) ==
    {b \in DOMAIN ops : IsBackType(ops[b]) /\ UpstreamOf(ops[b]) = grad_of(OutputOf(ops[k]))}

First(S)  == CHOOSE b \in S : \A c \in S : b <= c
Second(S) == CHOOSE b \in S : \A c \in S : c <= b

Gate(cond, g) == IF cond THEN g ELSE Zero
AddLane(x, y) == [j \in DOMAIN x |-> RAdd(x[j], y[j])]
ZeroLane      == [j \in 1..GraphLen |-> Zero]

JustExecuted(b) == b \notin executed /\ b \in executed'

(* C3: the gradient of a Min operator is exactly two MinBack instances, the
   first accumulating into grad_of(input1) and the second into
   grad_of(input2); executing the first adds g where x1 < x2 and 0 elsewhere,
   executing the second adds g where x2 < x1 and 0 elsewhere. *)
C3_Structure ==
    \A k \in MinOps :
        /\ (call = <<"gradient", k>>) => (result = "Ok" /\ BackOf(k) # {})
        /\ BackOf(k) # {} =>
              /\ Cardinality(BackOf(k)) = 2
              /\ ops[First(BackOf(k))] =
                    [type |-> "MinBack", input1 |-> ops[k].input1, input2 |-> ops[k].input2,
                     input3 |-> grad_of(ops[k].output), output |-> grad_of(ops[k].input1)]
              /\ ops[Second(BackOf(k))] =
                    [type |-> "MinBack", input1 |-> ops[k].input2, input2 |-> ops[k].input1,
                     input3 |-> grad_of(ops[k].output), output |-> grad_of(ops[k].input2)]

C3_Contribution ==
    \A k \in MinOps : \A b \in BackOf(k) :
        JustExecuted(b) =>
            LET x1 == val[ops[k].input1]
                x2 == val[ops[k].input2]
                g  == val[grad_of(ops[k].output)]
                into == IF b = First(BackOf(k)) THEN ops[k].input1 ELSE ops[k].input2
            IN  /\ OutputOf(ops[b]) = grad_of(into)
                /\ val'[grad_of(into)] =
                      AddLane(val[grad_of(into)],
                              [j \in 1..GraphLen |->
                                  IF b = First(BackOf(k))
                                  THEN Gate(RLt(x1[j], x2[j]), g[j])
                                  ELSE Gate(RLt(x2[j], x1[j]), g[j])])
                /\ \A n \in DOMAIN val : n # grad_of(into) => val'[n] = val[n]

C3_MinGradient ==
    /\ []C3_Structure
    /\ [][C3_Contribution]_vars

(* one Min over two different nodes, its two MinBack executed, with a tie, a
   position where x1 < x2 received g # 0 and a position where x1 > x2 received 0 *)
C3_Witness ==
    /\ val # <<>>
    /\ \E k \in MinOps :
          /\ Len(ops) = 3
          /\ ops[k].input1 # ops[k].input2
          /\ BackOf(k) \subseteq executed
          /\ Cardinality(BackOf(k)) = 2
          /\ \E j \in 1..GraphLen : val[ops[k].input1][j] = val[ops[k].input2][j]
          /\ \E j \in 1..GraphLen :
                /\ RLt(val[ops[k].input1][j], val[ops[k].input2][j])
                /\ val[grad_of(ops[k].input1)][j] = val[grad_of(ops[k].output)][j]
                /\ val[grad_of(ops[k].input1)][j] # Zero
          /\ \E j \in 1..GraphLen :
                /\ RLt(val[ops[k].input2][j], val[ops[k].input1][j])
                /\ val[grad_of(ops[k].input1)][j] = Zero

(* C4: the output of an executed Min operator is, element by element, x1 where
   x1 <= x2 and x2 otherwise; two Min operators over the same nodes in
   opposite order have the same output; min(x, x) = x. *)
C4_MinForward ==
    \A k \in MinOps \cap executed :
        /\ \A j \in 1..GraphLen :
              LET x1 == val[ops[k].input1][j]
                  x2 == val[ops[k].input2][j]
                  r  == val[ops[k].output][j]
              IN  /\ RLe(x1, x2) => r = x1
                  /\ ~RLe(x1, x2) => r = x2
                  /\ x1 = x2 => r = x1
        /\ \A h \in MinOps \cap executed :
              (ops[h].input1 = ops[k].input2 /\ ops[h].input2 = ops[k].input1)
                 => val[ops[h].output] = val[ops[k].output]

(* min(n, m) and min(m, n) both executed, on values with x1 < x2, x1 > x2 and a tie *)
C4_Witness ==
    /\ \E k \in MinOps \cap executed, h \in MinOps \cap executed :
          /\ ops[k].input1 # ops[k].input2
          /\ ops[h].input1 = ops[k].input2
          /\ ops[h].input2 = ops[k].input1
          /\ \E j \in 1..GraphLen : RLt(val[ops[k].input1][j], val[ops[k].input2][j])
          /\ \E j \in 1..GraphLen : RLt(val[ops[k].input2][j], val[ops[k].input1][j])
          /\ \E j \in 1..GraphLen : val[ops[k].input2][j] = val[ops[k].input1][j]

(* C5: a constructor whose build failed returned Err(OpBuildError): it did
   not panic and did not return Ok. *)
C5_BuildFailureReturned ==
    (call[1] \in {"min", "muldiv"} /\ ~call[2]) => result = "Err(OpBuildError)"

(* C7: once every instance has executed, each gradient accumulator holds the
   sum of what each of its producers adds, on its own, to a zeroed accumulator. *)
Solo(b, a) == ExecuteInstance(ops[b], [val EXCEPT ![a] = ZeroLane])

RECURSIVE SumSolo(_, _)
SumSolo(a, b) ==
    IF b = 0 THEN ZeroLane
    ELSE IF IsBackType(ops[b]) /\ OutputOf(ops[b]) = a
         THEN AddLane(SumSolo(a, b - 1), Solo(b, a))
         ELSE SumSolo(a, b - 1)

C7_AccumulatorIsSum ==
    (val # <<>> /\ executed = DOMAIN ops) =>
        \A b \in DOMAIN ops :
            IsBackType(ops[b]) => val[OutputOf(ops[b])] = SumSolo(OutputOf(ops[b]), Len(ops))

(* C9: gradient of a backward instance returns GradientError::Unimplemented,
   builds no instance and requests no accumulator node. *)
GradientOfBack(c) == c[1] = "gradient" /\ IsBackType(ops[c[2]])

C9_State == GradientOfBack(call) => result = "Err(Unimplemented)"

C9_Step == (GradientOfBack(call') /\ call' # call) => (ops' = ops /\ nodes' = nodes)

C9_SecondOrderUnimplemented ==
    /\ []C9_State
    /\ [][C9_Step]_vars

(* gradient was asked of a MulDivBack in a graph that also holds a MinBack *)
C9_Witness ==
    /\ GradientOfBack(call)
    /\ ops[call[2]].type = "MulDivBack"
    /\ \E b \in DOMAIN ops : ops[b].type = "MinBack"
    /\ result = "Err(Unimplemented)"

----------------------------------------------------------------------------
(* Shape propagation *)

Known(d) == [known |-> TRUE, size |-> d]
Unknown  == [known |-> FALSE, size |-> 0]

(* `shape.slice().into()`: the NodeShape whose axes are all known *)
ToNodeShape(shape) == [a \in DOMAIN shape |-> Known(shape[a])]

(* ShapePropContext::merge_output_shape: unknown axes unify, a rank or a
   known-against-known size mismatch is a ShapePropError and merges nothing *)
merge_output_shape(existing, proposed) ==
    IF /\ Len(existing) = Len(proposed)
       /\ \A a \in DOMAIN existing :
             (existing[a].known /\ proposed[a].known) => existing[a].size = proposed[a].size
    THEN [result |-> "Ok",
          shape  |-> [a \in DOMAIN existing |->
                         IF existing[a].known THEN existing[a] ELSE proposed[a]]]
    ELSE [result |-> "Err(ShapePropError)", shape |-> existing]

MulDivInstance_propagate_shapes(input_shape, output) ==
    merge_output_shape(output, ToNodeShape(input_shape))

(* variant: the shape of output_grad is not compared *)
MulDivBackInstance_propagate_shapesUnchecked(input_shape, output_grad_shape, input_grad) ==
    merge_output_shape(input_grad, ToNodeShape(input_shape))

MulDivBackInstance_propagate_shapes(input_shape, output_grad_shape, input_grad) ==
    IF output_grad_shape # input_shape
    THEN [result |-> "Err(ShapePropError)", shape |-> input_grad]
    ELSE merge_output_shape(input_grad, ToNodeShape(input_shape))

PropagateShapes ==
    /\ LET r == IF IsBack(inst)
                THEN MulDivBackInstance_propagate_shapes(ishape, gshape, oshape)
                ELSE MulDivInstance_propagate_shapes(ishape, oshape)
       IN  /\ sresult' = r.result
           /\ oshape' = r.shape
    /\ UNCHANGED <<ishape, gshape>>

Shapes     == UNION {[1..n -> 1..MaxDim] : n \in 1..2}
NodeShapes == UNION {[1..n -> {Known(d) : d \in 1..MaxDim} \cup {Unknown}] : n \in 1..2}

InitShape ==
    /\ GraphIdle
    /\ \E back \in BOOLEAN :
          inst = IF back THEN MulDivInstance_gradient(Forward(DefaultEpsilon)).built[1]
                 ELSE Forward(DefaultEpsilon)
    /\ store = <<>>
    /\ store0 = <<>>
    /\ pc = <<>>
    /\ writes = <<>>
    /\ status = "none"
    /\ ishape \in Shapes
    /\ gshape \in Shapes
    /\ IsBack(inst) \/ gshape = ishape
    /\ oshape \in NodeShapes
    /\ sresult = "none"

NextShape == PropagateShapes /\ UNCHANGED <<execVars, graphVars>>

SpecShape == InitShape /\ [][NextShape]_vars

(* the constraint admits the shape: same rank, every known axis of that size *)
Compatible(constraint, shape) ==
    /\ Len(constraint) = Len(shape)
    /\ \A a \in DOMAIN constraint : constraint[a].known => constraint[a].size = shape[a]

Failed(r) == r = "Err(ShapePropError)"

(* C8 as stated: MulDivInstance::propagate_shapes leaves the output shape
   equal to the input shape on success and fails on an incompatible
   constraint; MulDivBackInstance::propagate_shapes fails exactly when the
   shape of output_grad differs from the shape of input. *)
C8_BackFailsExactlyOnMismatch ==
    /\ (~IsBack(inst) /\ sresult = "Ok") => oshape = ToNodeShape(ishape)
    /\ (IsBack(inst) /\ sresult # "none") => (Failed(sresult) <=> gshape # ishape)

(* C8 as amended: a propagation step of the forward instance succeeds with
   the output shape equal to the input shape when the output's constraint
   admits the input shape and fails, merging nothing, otherwise; a step of
   the backward instance fails, merging nothing, when the shape of
   output_grad differs from the input's or input_grad's constraint does not
   admit the input shape, and otherwise succeeds with input_grad's shape
   equal to the input shape. *)
C8_Step ==
    sresult' # sresult =>
        LET ok == /\ Compatible(oshape, ishape)
                  /\ IsBack(inst) => gshape = ishape
        IN  /\ ok  => (sresult' = "Ok" /\ oshape' = ToNodeShape(ishape))
            /\ ~ok => (Failed(sresult') /\ oshape' = oshape)

C8_ShapePropagation ==
    /\ [][C8_Step]_vars
    /\ [](sresult = "Ok" => oshape = ToNodeShape(ishape))

(* the backward instance failed although output_grad has the input's shape *)
C8_Witness ==
    /\ IsBack(inst)
    /\ Failed(sresult)
    /\ gshape = ishape
    /\ Len(ishape) = 2

====
